---- MODULE Spec2Model ----
(***************************************************************************)
(* A model of the autocuber backend (src/backend/src/cube.rs): the NxN     *)
(* cube, move notation, move execution and move-sequence algebra.          *)
(***************************************************************************)
EXTENDS Integers, Sequences, FiniteSets, TLC

\* ------------------------------------------------------------------ bounds
\* Number of layers of the cube the program builds (Cube::<3>).
N == 3
\* The layer count hard-coded in the notation parser.
ParseN == 3
\* Longest sequence of perform calls explored from the solved cube.
MaxPerforms == 2
\* Longest MoveSequence built move by move.
MaxSeqLen == 2
\* Longest notation string typed character by character.
MaxTextLen == 3
\* Largest depth handed to Move::new (one more than the cube has layers).
MaxDepth == 4
\* Largest quarter-turn count accumulated for one layer, either way.
MaxTurns == 30
\* Most moves the three operands of a composition hold together.
MaxOpMoves == 3
\* The range of i32, the type of a quarter-turn count.
I32Max == 2147483647
I32Min == -I32Max - 1

\* ------------------------------------------------------- primitive types
Colours == {"Green", "Red", "White", "Blue", "Orange", "Yellow"}
FaceTypes == {"F", "R", "U", "B", "L", "D"}
Axes == {"FB", "RL", "UD"}
RotationTypes == {"Normal", "Double", "Inverse"}
Idx == 0 .. (N - 1)

\* From<FaceType> for Colour: same discriminant.
ColourOf(face) ==
    CASE face = "F" -> "Green"
      [] face = "R" -> "Red"
      [] face = "U" -> "White"
      [] face = "B" -> "Blue"
      [] face = "L" -> "Orange"
      [] face = "D" -> "Yellow"

\* RotationType::inverse
RotationInverse(r) ==
    CASE r = "Normal" -> "Inverse"
      [] r = "Double" -> "Double"
      [] r = "Inverse" -> "Normal"

\* RotationType::rotations
rotations(r) ==
    CASE r = "Normal" -> 1
      [] r = "Double" -> 2
      [] r = "Inverse" -> -1

\* Rust's truncating remainder on i32 (the sign follows the dividend), d > 0.
RustRem(n, d) ==
    IF n >= 0 \/ n % d = 0 THEN n % d ELSE (n % d) - d

\* A faulty from_rotations that matches on n % 4 alone, the remainder of a
\* negative n falling into the last arm; C11 must not survive it.
from_rotations_remainder_only(n) ==
    LET k == RustRem(n, 4)
    IN  CASE k = 0 -> "None"
          [] k = 1 -> "Normal"
          [] k = 2 -> "Double"
          [] OTHER -> "Inverse"

\* RotationType::from_rotations; "None" when no rotation is required.
from_rotations(n) ==
    LET k == RustRem(RustRem(n, 4) + 4, 4)
    IN  CASE k = 0 -> "None"
          [] k = 1 -> "Normal"
          [] k = 2 -> "Double"
          [] k = 3 -> "Inverse"

\* -------------------------------------------------------------- EdgeType
\* An Option is a sequence: <<>> for None, <<v>> for Some(v).
Some(v) == <<v>>

\* The twelve edge types, the key sticker's face written first.
EdgeTypes ==
    {"UR", "UF", "UL", "UB", "DR", "DF", "DL", "DB", "FR", "FL", "BR", "BL"}

\* EdgeType::from_faces_ordered
from_faces_ordered(f1, f2) ==
    CASE f1 = "U" /\ f2 = "R" -> Some("UR")
      [] f1 = "U" /\ f2 = "F" -> Some("UF")
      [] f1 = "U" /\ f2 = "L" -> Some("UL")
      [] f1 = "U" /\ f2 = "B" -> Some("UB")
      [] f1 = "D" /\ f2 = "R" -> Some("DR")
      [] f1 = "D" /\ f2 = "F" -> Some("DF")
      [] f1 = "D" /\ f2 = "L" -> Some("DL")
      [] f1 = "D" /\ f2 = "B" -> Some("DB")
      [] f1 = "F" /\ f2 = "R" -> Some("FR")
      [] f1 = "F" /\ f2 = "L" -> Some("FL")
      [] f1 = "B" /\ f2 = "R" -> Some("BR")
      [] f1 = "B" /\ f2 = "L" -> Some("BL")
      [] OTHER -> <<>>

\* A faulty from_faces that gives the reversed pair parity 0 too; C12 must not
\* survive it.
from_faces_parity_kept(f1, f2) ==
    IF from_faces_ordered(f1, f2) # <<>>
    THEN Some(<<from_faces_ordered(f1, f2)[1], 0>>)
    ELSE IF from_faces_ordered(f2, f1) # <<>>
    THEN Some(<<from_faces_ordered(f2, f1)[1], 0>>)
    ELSE <<>>

\* EdgeType::from_faces: the edge and its parity, an element of CyclicGroup<2>.
from_faces(f1, f2) ==
    IF from_faces_ordered(f1, f2) # <<>>
    THEN Some(<<from_faces_ordered(f1, f2)[1], 0>>)
    ELSE IF from_faces_ordered(f2, f1) # <<>>
    THEN Some(<<from_faces_ordered(f2, f1)[1], 1>>)
    ELSE <<>>

\* ------------------------------------------------------------------ Move
Move(axis, rotation_type, start_depth, end_depth) ==
    [axis |-> axis, rotation_type |-> rotation_type,
     start_depth |-> start_depth, end_depth |-> end_depth]

\* Move::inverse
MoveInverse(mv) == [mv EXCEPT !.rotation_type = RotationInverse(mv.rotation_type)]

\* ------------------------------------------------------------------ Face
\* A [_; N] array filled by the loop `for i in 0..N { array[i].write(..) }`,
\* entry i being at(i); built entry by entry, from entry i on.
RECURSIVE array_from(_, _)
array_from(at, i) ==
    IF i >= N - 1 THEN (i :> at[i]) ELSE (i :> at[i]) @@ array_from(at, i + 1)

Array(at) == array_from(at, 0)

\* Face::new
FaceNew(ty) == Array([r \in Idx |-> Array([c \in Idx |-> ColourOf(ty)])])

row(face, r) == face[r]

row_rev(face, r) == Array([i \in Idx |-> face[r][N - 1 - i]])

\* A faulty col that swaps the two indices and so reads row c; C19 must not
\* survive it.
col_indices_swapped(face, c) == Array([i \in Idx |-> face[c][i]])

col(face, c) == Array([i \in Idx |-> face[i][c]])

col_rev(face, c) == Array([i \in Idx |-> face[N - 1 - i][c]])

rotate_cw(face) == Array([i \in Idx |-> col_rev(face, i)])

\* A faulty rotate_ccw that takes column i instead of column N - 1 - i (a
\* transposition); C1 must not survive it.
rotate_ccw_transposed(face) == Array([i \in Idx |-> col(face, i)])

rotate_ccw(face) == Array([i \in Idx |-> col(face, N - 1 - i)])

rotate_double(face) == Array([i \in Idx |-> row_rev(face, N - 1 - i)])

set_row(face, r, data) == [face EXCEPT ![r] = data]

\* The loop of Face::set_col, from row i on.
RECURSIVE set_col_loop(_, _, _, _)
set_col_loop(face, c, data, i) ==
    IF i >= N THEN face
    ELSE set_col_loop([face EXCEPT ![i][c] = data[i]], c, data, i + 1)

set_col(face, c, data) == set_col_loop(face, c, data, 0)

\* A faulty loop body of overwrite_from that writes a Bottom target at row i
\* instead of row j; C6 must not survive it.
overwrite_line_bottom_at_i(face, i, target_type, source, source_type) ==
    LET source_clockwise == source_type \in {"Top", "Right"}
        target_clockwise == target_type \in {"Top", "Right"}
        reverse_direction == source_clockwise # target_clockwise
        j == N - 1 - i
        source_row ==
            CASE source_type = "Top" /\ ~reverse_direction -> row(source, i)
              [] source_type = "Top" /\ reverse_direction -> row_rev(source, i)
              [] source_type = "Right" /\ ~reverse_direction -> col(source, j)
              [] source_type = "Right" /\ reverse_direction -> col_rev(source, j)
              [] source_type = "Bottom" /\ ~reverse_direction -> row(source, j)
              [] source_type = "Bottom" /\ reverse_direction -> row_rev(source, j)
              [] source_type = "Left" /\ ~reverse_direction -> col(source, i)
              [] source_type = "Left" /\ reverse_direction -> col_rev(source, i)
    IN  CASE target_type = "Top" -> set_row(face, i, source_row)
          [] target_type = "Right" -> set_col(face, j, source_row)
          [] target_type = "Bottom" -> set_row(face, i, source_row)
          [] target_type = "Left" -> set_col(face, i, source_row)

\* One iteration of the loop of Face::overwrite_from, for layer i.
overwrite_line(face, i, target_type, source, source_type) ==
    LET source_clockwise == source_type \in {"Top", "Right"}
        target_clockwise == target_type \in {"Top", "Right"}
        reverse_direction == source_clockwise # target_clockwise
        j == N - 1 - i
        source_row ==
            CASE source_type = "Top" /\ ~reverse_direction -> row(source, i)
              [] source_type = "Top" /\ reverse_direction -> row_rev(source, i)
              [] source_type = "Right" /\ ~reverse_direction -> col(source, j)
              [] source_type = "Right" /\ reverse_direction -> col_rev(source, j)
              [] source_type = "Bottom" /\ ~reverse_direction -> row(source, j)
              [] source_type = "Bottom" /\ reverse_direction -> row_rev(source, j)
              [] source_type = "Left" /\ ~reverse_direction -> col(source, i)
              [] source_type = "Left" /\ reverse_direction -> col_rev(source, i)
    IN  CASE target_type = "Top" -> set_row(face, i, source_row)
          [] target_type = "Right" -> set_col(face, j, source_row)
          [] target_type = "Bottom" -> set_row(face, j, source_row)
          [] target_type = "Left" -> set_col(face, i, source_row)

RECURSIVE overwrite_loop(_, _, _, _, _, _)
overwrite_loop(face, i, end_depth, target_type, source, source_type) ==
    IF i >= end_depth THEN face
    ELSE overwrite_loop(overwrite_line(face, i, target_type, source, source_type),
                        i + 1, end_depth, target_type, source, source_type)

\* Face::overwrite_from
overwrite_from(self, start_depth, end_depth, target_type, source, source_type) ==
    overwrite_loop(self, start_depth, end_depth, target_type, source, source_type)

\* ------------------------------------------------------------------ Cube
\* Cube::new: faces ordered F R U B L D, face i filled with colour i.
CubeNew ==
    [F |-> FaceNew("F"), R |-> FaceNew("R"), U |-> FaceNew("U"),
     B |-> FaceNew("B"), L |-> FaceNew("L"), D |-> FaceNew("D")]

\* The arms of the face! macro of Cube::perform.
face_cw(self, face, start_depth) ==
    IF start_depth = 0 THEN rotate_cw(self[face]) ELSE self[face]

face_2(self, face, start_depth) ==
    IF start_depth = 0 THEN rotate_double(self[face]) ELSE self[face]

face_ccw(self, face, start_depth) ==
    IF start_depth = 0 THEN rotate_ccw(self[face]) ELSE self[face]

face_b_cw(self, face, end_depth) ==
    IF end_depth = N THEN rotate_cw(self[face]) ELSE self[face]

\* A faulty `b 2` arm that turns the face by a quarter; C17 must not survive it.
face_b_2_quarter(self, face, end_depth) ==
    IF end_depth = N THEN rotate_cw(self[face]) ELSE self[face]

face_b_2(self, face, end_depth) ==
    IF end_depth = N THEN rotate_double(self[face]) ELSE self[face]

face_b_ccw(self, face, end_depth) ==
    IF end_depth = N THEN rotate_ccw(self[face]) ELSE self[face]

face_from(self, sd, ed, face, target, source_face, source_type) ==
    overwrite_from(self[face], sd, ed, target, self[source_face], source_type)

\* Cube::perform: the nine transfer patterns.
perform(self, mv) ==
    LET sd == mv.start_depth
        ed == mv.end_depth
        a == mv.axis
        rt == mv.rotation_type
    IN  CASE a = "FB" /\ rt = "Normal" ->
               [F |-> face_cw(self, "F", sd),
                R |-> face_from(self, sd, ed, "R", "Left", "U", "Bottom"),
                U |-> face_from(self, sd, ed, "U", "Bottom", "L", "Right"),
                B |-> face_b_cw(self, "B", ed),
                L |-> face_from(self, sd, ed, "L", "Right", "D", "Top"),
                D |-> face_from(self, sd, ed, "D", "Top", "R", "Left")]
          [] a = "FB" /\ rt = "Double" ->
               [F |-> face_2(self, "F", sd),
                R |-> face_from(self, sd, ed, "R", "Left", "L", "Right"),
                U |-> face_from(self, sd, ed, "U", "Bottom", "D", "Top"),
                B |-> face_b_2(self, "B", ed),
                L |-> face_from(self, sd, ed, "L", "Right", "R", "Left"),
                D |-> face_from(self, sd, ed, "D", "Top", "U", "Bottom")]
          [] a = "FB" /\ rt = "Inverse" ->
               [F |-> face_ccw(self, "F", sd),
                R |-> face_from(self, sd, ed, "R", "Left", "D", "Top"),
                U |-> face_from(self, sd, ed, "U", "Bottom", "R", "Left"),
                B |-> face_b_ccw(self, "B", ed),
                L |-> face_from(self, sd, ed, "L", "Right", "U", "Bottom"),
                D |-> face_from(self, sd, ed, "D", "Top", "L", "Right")]
          [] a = "RL" /\ rt = "Normal" ->
               [F |-> face_from(self, sd, ed, "F", "Right", "D", "Right"),
                R |-> face_cw(self, "R", sd),
                U |-> face_from(self, sd, ed, "U", "Right", "F", "Right"),
                B |-> face_from(self, sd, ed, "B", "Left", "U", "Right"),
                L |-> face_b_cw(self, "L", ed),
                D |-> face_from(self, sd, ed, "D", "Right", "B", "Left")]
          [] a = "RL" /\ rt = "Double" ->
               [F |-> face_from(self, sd, ed, "F", "Right", "B", "Left"),
                R |-> face_2(self, "R", sd),
                U |-> face_from(self, sd, ed, "U", "Right", "D", "Right"),
                B |-> face_from(self, sd, ed, "B", "Left", "F", "Right"),
                L |-> face_b_2(self, "L", ed),
                D |-> face_from(self, sd, ed, "D", "Right", "U", "Right")]
          [] a = "RL" /\ rt = "Inverse" ->
               [F |-> face_from(self, sd, ed, "F", "Right", "U", "Right"),
                R |-> face_ccw(self, "R", sd),
                U |-> face_from(self, sd, ed, "U", "Right", "B", "Left"),
                B |-> face_from(self, sd, ed, "B", "Left", "D", "Right"),
                L |-> face_b_ccw(self, "L", ed),
                D |-> face_from(self, sd, ed, "D", "Right", "F", "Right")]
          [] a = "UD" /\ rt = "Normal" ->
               [F |-> face_from(self, sd, ed, "F", "Top", "R", "Top"),
                R |-> face_from(self, sd, ed, "R", "Top", "B", "Top"),
                U |-> face_cw(self, "U", sd),
                B |-> face_from(self, sd, ed, "B", "Top", "L", "Top"),
                L |-> face_from(self, sd, ed, "L", "Top", "F", "Top"),
                D |-> face_b_cw(self, "D", ed)]
          [] a = "UD" /\ rt = "Double" ->
               [F |-> face_from(self, sd, ed, "F", "Top", "B", "Top"),
                R |-> face_from(self, sd, ed, "R", "Top", "L", "Top"),
                U |-> face_2(self, "U", sd),
                B |-> face_from(self, sd, ed, "B", "Top", "F", "Top"),
                L |-> face_from(self, sd, ed, "L", "Top", "R", "Top"),
                D |-> face_b_2(self, "D", ed)]
          [] a = "UD" /\ rt = "Inverse" ->
               [F |-> face_from(self, sd, ed, "F", "Top", "L", "Top"),
                R |-> face_from(self, sd, ed, "R", "Top", "F", "Top"),
                U |-> face_ccw(self, "U", sd),
                B |-> face_from(self, sd, ed, "B", "Top", "R", "Top"),
                L |-> face_from(self, sd, ed, "L", "Top", "B", "Top"),
                D |-> face_b_ccw(self, "D", ed)]

\* Cube::perform applied to each move of a sequence in order (the replay of a
\* MoveSequence: moves are read left to right as application order).
RECURSIVE perform_all(_, _)
perform_all(self, moves) ==
    IF moves = <<>> THEN self
    ELSE perform_all(perform(self, Head(moves)), Tail(moves))

\* perform aborts when the line loop of overwrite_from reaches a layer index
\* i >= N: N - 1 - i underflows (debug build) or the line index is out of
\* bounds (release build); both builds panic.
perform_panics(mv) == mv.start_depth < mv.end_depth /\ mv.end_depth > N

\* Moves whose depth range is a non-empty range of layers of the cube.
ValidMoves ==
    {m \in [axis : Axes, rotation_type : RotationTypes,
            start_depth : 0 .. (N - 1), end_depth : 1 .. N] :
        m.start_depth < m.end_depth}

\* -------------------------------------------------------------- notation
\* A string is a sequence of characters; a character is a one-character string.
LowerLetters ==
    <<"a", "b", "c", "d", "e", "f", "g", "h", "i", "j", "k", "l", "m",
      "n", "o", "p", "q", "r", "s", "t", "u", "v", "w", "x", "y", "z">>
UpperLetters ==
    <<"A", "B", "C", "D", "E", "F", "G", "H", "I", "J", "K", "L", "M",
      "N", "O", "P", "Q", "R", "S", "T", "U", "V", "W", "X", "Y", "Z">>

\* char::is_lowercase
is_lowercase(ch) == \E k \in DOMAIN LowerLetters : LowerLetters[k] = ch

\* char::to_uppercase
to_uppercase(ch) ==
    IF is_lowercase(ch)
    THEN UpperLetters[CHOOSE k \in DOMAIN LowerLetters : LowerLetters[k] = ch]
    ELSE ch

\* The error value of every FromStr implementation: Err(()).
Err == [ok |-> FALSE]
Ok(v) == [ok |-> TRUE, value |-> v]

\* FromStr for FaceType
FaceType_from_str(s) ==
    IF s \in {<<"F">>, <<"R">>, <<"U">>, <<"B">>, <<"L">>, <<"D">>}
    THEN Ok(s[1]) ELSE Err

\* The modifier loop of Move::from_str, from character k of s; st holds
\* end_depth and rotation_type, and the loop returns Err at the first
\* character that is no modifier.
RECURSIVE modifications(_, _, _)
modifications(s, k, st) ==
    IF k > Len(s) THEN Ok(st)
    ELSE CASE s[k] = "w" -> modifications(s, k + 1, [st EXCEPT !.end_depth = 2])
           [] s[k] = "2" ->
                modifications(s, k + 1, [st EXCEPT !.rotation_type = "Double"])
           [] s[k] = "'" ->
                modifications(s, k + 1,
                    IF st.rotation_type # "Double"
                    THEN [st EXCEPT !.rotation_type = "Inverse"] ELSE st)
           [] OTHER -> Err

\* A faulty parser that mirrors the depth range of B, L and D and keeps the
\* rotation as written; C15 must not survive it.
Move_from_str_rotation_kept(s) ==
    IF s = <<>> THEN Err
    ELSE
    LET face_char == s[1]
        turn_direction ==
            CASE face_char = "M" -> "L"
              [] face_char = "E" -> "D"
              [] face_char = "S" -> "F"
              [] OTHER -> face_char
        face == FaceType_from_str(<<to_uppercase(turn_direction)>>)
        end_depth0 == IF is_lowercase(face_char) THEN 2 ELSE 1
        slice == face_char \in {"M", "E", "S"}
        start_depth == IF slice THEN 1 ELSE 0
        end_depth1 == IF slice THEN 2 ELSE end_depth0
        mods == modifications(s, 2, [end_depth |-> end_depth1,
                                     rotation_type |-> "Normal"])
    IN  IF ~face.ok THEN Err
        ELSE IF ~mods.ok THEN Err
        ELSE
        LET rotation_type == mods.value.rotation_type
            end_depth == mods.value.end_depth
            mirrored(axis) ==
                Move(axis, rotation_type,
                     ParseN - end_depth, ParseN - start_depth)
        IN  Ok(CASE face.value = "F" -> Move("FB", rotation_type, start_depth, end_depth)
                 [] face.value = "R" -> Move("RL", rotation_type, start_depth, end_depth)
                 [] face.value = "U" -> Move("UD", rotation_type, start_depth, end_depth)
                 [] face.value = "B" -> mirrored("FB")
                 [] face.value = "L" -> mirrored("RL")
                 [] face.value = "D" -> mirrored("UD"))

\* FromStr for Move
Move_from_str(s) ==
    IF s = <<>> THEN Err
    ELSE
    LET face_char == s[1]
        turn_direction ==
            CASE face_char = "M" -> "L"
              [] face_char = "E" -> "D"
              [] face_char = "S" -> "F"
              [] OTHER -> face_char
        face == FaceType_from_str(<<to_uppercase(turn_direction)>>)
        end_depth0 == IF is_lowercase(face_char) THEN 2 ELSE 1
        slice == face_char \in {"M", "E", "S"}
        start_depth == IF slice THEN 1 ELSE 0
        end_depth1 == IF slice THEN 2 ELSE end_depth0
        mods == modifications(s, 2, [end_depth |-> end_depth1,
                                     rotation_type |-> "Normal"])
    IN  IF ~face.ok THEN Err
        ELSE IF ~mods.ok THEN Err
        ELSE
        LET rotation_type == mods.value.rotation_type
            end_depth == mods.value.end_depth
            mirrored(axis) ==
                Move(axis, RotationInverse(rotation_type),
                     ParseN - end_depth, ParseN - start_depth)
        IN  Ok(CASE face.value = "F" -> Move("FB", rotation_type, start_depth, end_depth)
                 [] face.value = "R" -> Move("RL", rotation_type, start_depth, end_depth)
                 [] face.value = "U" -> Move("UD", rotation_type, start_depth, end_depth)
                 [] face.value = "B" -> mirrored("FB")
                 [] face.value = "L" -> mirrored("RL")
                 [] face.value = "D" -> mirrored("UD"))

\* Display for RotationType
RotationType_fmt(r) ==
    CASE r = "Normal" -> <<>>
      [] r = "Double" -> <<"2">>
      [] r = "Inverse" -> <<"'">>

\* Display for usize: the decimal digits.
Digits == <<"0", "1", "2", "3", "4", "5", "6", "7", "8", "9">>
RECURSIVE usize_fmt(_)
usize_fmt(n) ==
    IF n < 10 THEN <<Digits[n + 1]>>
    ELSE usize_fmt(n \div 10) \o <<Digits[(n % 10) + 1]>>

\* Debug for Axis: the variant's name.
Axis_debug(a) ==
    CASE a = "FB" -> <<"F", "B">>
      [] a = "RL" -> <<"R", "L">>
      [] a = "UD" -> <<"U", "D">>

\* A faulty Display that prints the slice moves of RL and UD with the rotation
\* as stored, not inverted; C7 must not survive it.
Move_fmt_slices_as_stored(self) ==
    LET d == <<self.start_depth, self.end_depth>>
        rot == RotationType_fmt(self.rotation_type)
        inv == RotationType_fmt(RotationInverse(self.rotation_type))
    IN  CASE d = <<0, 1>> ->
               (CASE self.axis = "FB" -> <<"F">> \o rot
                  [] self.axis = "RL" -> <<"R">> \o rot
                  [] self.axis = "UD" -> <<"U">> \o rot)
          [] d = <<1, 2>> ->
               (CASE self.axis = "FB" -> <<"S">> \o rot
                  [] self.axis = "RL" -> <<"M">> \o rot
                  [] self.axis = "UD" -> <<"E">> \o rot)
          [] d = <<2, 3>> ->
               (CASE self.axis = "FB" -> <<"B">> \o inv
                  [] self.axis = "RL" -> <<"L">> \o inv
                  [] self.axis = "UD" -> <<"D">> \o inv)
          [] OTHER ->
               Axis_debug(self.axis) \o usize_fmt(self.start_depth) \o <<"-">>
                   \o usize_fmt(self.end_depth) \o rot

\* Display for Move
Move_fmt(self) ==
    LET d == <<self.start_depth, self.end_depth>>
        rot == RotationType_fmt(self.rotation_type)
        inv == RotationType_fmt(RotationInverse(self.rotation_type))
    IN  CASE d = <<0, 1>> ->
               (CASE self.axis = "FB" -> <<"F">> \o rot
                  [] self.axis = "RL" -> <<"R">> \o rot
                  [] self.axis = "UD" -> <<"U">> \o rot)
          [] d = <<1, 2>> ->
               (CASE self.axis = "FB" -> <<"S">> \o rot
                  [] self.axis = "RL" -> <<"M">> \o inv
                  [] self.axis = "UD" -> <<"E">> \o inv)
          [] d = <<2, 3>> ->
               (CASE self.axis = "FB" -> <<"B">> \o inv
                  [] self.axis = "RL" -> <<"L">> \o inv
                  [] self.axis = "UD" -> <<"D">> \o inv)
          [] OTHER ->
               Axis_debug(self.axis) \o usize_fmt(self.start_depth) \o <<"-">>
                   \o usize_fmt(self.end_depth) \o rot

\* str::split(' '): the pieces between spaces, empty pieces included.
RECURSIVE split(_, _)
split(s, piece) ==
    IF s = <<>> THEN <<piece>>
    ELSE IF Head(s) = " " THEN <<piece>> \o split(Tail(s), <<>>)
    ELSE split(Tail(s), Append(piece, Head(s)))

\* A faulty loop that skips a piece that fails to parse; C9 must not survive it.
RECURSIVE parse_pieces_skipping(_, _)
parse_pieces_skipping(pieces, moves) ==
    IF pieces = <<>> THEN Ok(moves)
    ELSE LET value == Move_from_str(Head(pieces))
         IN  IF ~value.ok THEN parse_pieces_skipping(Tail(pieces), moves)
             ELSE parse_pieces_skipping(Tail(pieces), Append(moves, value.value))

\* The loop of MoveSequence::from_str: each piece is parsed and pushed; the
\* first piece that fails ends the parse with its error.
RECURSIVE parse_pieces(_, _)
parse_pieces(pieces, moves) ==
    IF pieces = <<>> THEN Ok(moves)
    ELSE LET value == Move_from_str(Head(pieces))
         IN  IF ~value.ok THEN Err
             ELSE parse_pieces(Tail(pieces), Append(moves, value.value))

\* FromStr for MoveSequence
MoveSequence_from_str(s) == parse_pieces(split(s, <<>>), <<>>)

\* --------------------------------------------------------- MoveSequence
\* A MoveSequence is the sequence of its moves.

\* A faulty op that chains self's moves with other's; C13 must not survive it.
op_self_first(self, other) == self \o other

\* Magma for MoveSequence: other's moves chained with self's.
op(self, other) == other \o self

\* InverseSemigroup for MoveSequence: reversed, each move inverted.
\* A faulty inverse that inverts each move and forgets to reverse the order;
\* C5 must not survive it.
RECURSIVE MoveSequence_inverse_in_order(_)
MoveSequence_inverse_in_order(self) ==
    IF self = <<>> THEN <<>>
    ELSE <<MoveInverse(Head(self))>> \o MoveSequence_inverse_in_order(Tail(self))

RECURSIVE MoveSequence_inverse(_)
MoveSequence_inverse(self) ==
    IF self = <<>> THEN <<>>
    ELSE Append(MoveSequence_inverse(Tail(self)), MoveInverse(Head(self)))

\* turns_by_slice of process_axis: the keys the run's moves insert ...
slices(current_axis_moves) ==
    UNION {mv.start_depth .. (mv.end_depth - 1) :
           mv \in {current_axis_moves[i] : i \in DOMAIN current_axis_moves}}

\* ... and the count accumulated at a key.
RECURSIVE turns_at(_, _)
turns_at(current_axis_moves, slice) ==
    IF current_axis_moves = <<>> THEN 0
    ELSE LET mv == Head(current_axis_moves)
         IN  (IF mv.start_depth <= slice /\ slice < mv.end_depth
              THEN rotations(mv.rotation_type) ELSE 0)
             + turns_at(Tail(current_axis_moves), slice)

turns_by_slice(current_axis_moves) ==
    [slice \in slices(current_axis_moves) |-> turns_at(current_axis_moves, slice)]

\* The orders in which a HashMap with the key set S may be iterated: the
\* hasher is seeded at random, so every enumeration of the keys is possible.
IterationOrders(S) ==
    {o \in [1 .. Cardinality(S) -> S] : \A k \in S : \E i \in DOMAIN o : o[i] = k}

\* A faulty block end that always emits a one-layer move; C2 must not survive it.
finish_wide_move_one_layer(current_axis, st) ==
    LET rotation_type == from_rotations(st.expected_rotations)
    IN  IF rotation_type # "None"
        THEN <<Move(current_axis, rotation_type, st.current_start_slice,
                    st.current_start_slice + 1)>>
        ELSE <<>>

\* The move process_axis pushes when a block of slices is finished: none when
\* the block's rotation count is a multiple of four.
finish_wide_move(current_axis, st) ==
    LET rotation_type == from_rotations(st.expected_rotations)
    IN  IF rotation_type # "None"
        THEN <<Move(current_axis, rotation_type, st.current_start_slice, st.expected_slice)>>
        ELSE <<>>

\* The loop of process_axis over the map, visited in the order `order`, from
\* entry i on.
RECURSIVE blocks(_, _, _, _, _)
blocks(current_axis, turns, order, i, st) ==
    IF i > Len(order) THEN st.new_moves \o finish_wide_move(current_axis, st)
    ELSE LET slice == order[i]
             rots == turns[slice]
         IN  IF slice = st.expected_slice /\ rots = st.expected_rotations
             THEN blocks(current_axis, turns, order, i + 1,
                         [st EXCEPT !.expected_slice = st.expected_slice + 1])
             ELSE blocks(current_axis, turns, order, i + 1,
                         [new_moves |-> st.new_moves \o finish_wide_move(current_axis, st),
                          current_start_slice |-> slice,
                          expected_slice |-> slice + 1,
                          expected_rotations |-> rots])

\* process_axis aborts on a run whose map is empty: iter().next().unwrap().
process_axis_panics(current_axis_moves) == slices(current_axis_moves) = {}

\* The closure process_axis of canonicalise: the moves it appends for one run
\* of same-axis moves, the map being iterated in the order `order`.
process_axis(current_axis, current_axis_moves, order) ==
    LET turns == turns_by_slice(current_axis_moves)
    IN  blocks(current_axis, turns, order, 1,
               [new_moves |-> <<>>,
                current_start_slice |-> order[1],
                expected_slice |-> order[1],
                expected_rotations |-> turns[order[1]]])

\* The run splitting of canonicalise: the maximal runs of consecutive moves
\* with the same axis, in their original order.
RECURSIVE axis_runs(_, _)
axis_runs(moves, current_axis_moves) ==
    IF moves = <<>> THEN <<current_axis_moves>>
    ELSE IF current_axis_moves # <<>> /\ Head(moves).axis # current_axis_moves[1].axis
    THEN <<current_axis_moves>> \o axis_runs(Tail(moves), <<Head(moves)>>)
    ELSE axis_runs(Tail(moves), Append(current_axis_moves, Head(moves)))

\* One iteration order for each run's map.
RECURSIVE run_orders(_)
run_orders(runs) ==
    IF runs = <<>> THEN {<<>>}
    ELSE {<<o>> \o rest : o \in IterationOrders(slices(Head(runs))),
                          rest \in run_orders(Tail(runs))}

RECURSIVE process_runs(_, _)
process_runs(runs, orders) ==
    IF runs = <<>> THEN <<>>
    ELSE process_axis(Head(runs)[1].axis, Head(runs), Head(orders))
         \o process_runs(Tail(runs), Tail(orders))

\* MoveSequence::canonicalise, the map of run i being iterated in orders[i].
canonicalise(self, orders) ==
    IF self = <<>> THEN self
    ELSE process_runs(axis_runs(self, <<>>), orders)

\* canonicalise aborts when process_axis does.
canonicalise_panics(self) ==
    /\ self # <<>>
    /\ \E i \in DOMAIN axis_runs(self, <<>>) :
           process_axis_panics(axis_runs(self, <<>>)[i])

\* ----------------------------------------------------------------- state
VARIABLES
    cube,       \* the Cube<N> held by the caller
    prev,       \* the cube before the last perform
    performed,  \* the moves perform has been executed on, in order
    panicked,   \* whether a call has aborted
    pending,    \* the Move built by Move::new and not yet performed, if any
    seq,        \* a MoveSequence
    canon,      \* seq.canonicalise()
    recanon,    \* seq.canonicalise().canonicalise()
    inv,        \* seq.inverse()
    text,       \* a notation string
    parsed,     \* the result of parsing text
    printed,    \* the parsed move, printed
    arg,        \* the arguments of a call of an associated function
    result,     \* what the call returned
    phase       \* what has been done so far

cubeVars == <<cube, prev, performed, panicked, pending>>
seqVars == <<seq, canon, recanon, inv>>
textVars == <<text, parsed, printed>>
callVars == <<arg, result>>
vars == <<cube, prev, performed, panicked, pending, seq, canon, recanon, inv,
          text, parsed, printed, arg, result, phase>>

None == "none"

InitCommon ==
    /\ prev = CubeNew
    /\ performed = <<>>
    /\ panicked = FALSE
    /\ pending = <<>>
    /\ seq = <<>>
    /\ canon = None
    /\ recanon = None
    /\ inv = None
    /\ text = <<>>
    /\ parsed = None
    /\ printed = None
    /\ result = None

\* ------------------------------------------------- Spec: cube and perform
\* The solved cube, turned by perform with moves of a valid depth range.
Init ==
    /\ InitCommon
    /\ arg = None
    /\ cube = CubeNew
    /\ phase = "perform"

\* cube = cube.perform(mv)
Perform(mv) ==
    /\ Len(performed) < MaxPerforms
    /\ cube' = perform(cube, mv)
    /\ prev' = cube
    /\ performed' = Append(performed, mv)
    /\ UNCHANGED <<callVars, panicked, pending, seqVars, textVars, phase>>

Next == \E mv \in ValidMoves : Perform(mv)

Spec == Init /\ [][Next]_vars

\* --------------------------------------- SpecNew: moves from Move::new
\* Every Move the signature of Move::new admits, depths up to MaxDepth.
NewMoves ==
    [axis : Axes, rotation_type : RotationTypes,
     start_depth : 0 .. MaxDepth, end_depth : 0 .. MaxDepth]

InitNew ==
    /\ InitCommon
    /\ arg = None
    /\ cube = CubeNew
    /\ phase = "new"

\* Move::new: the four fields are stored as given.
MoveNew(axis, rotation_type, start_depth, end_depth) ==
    /\ pending = <<>>
    /\ ~panicked
    /\ Len(performed) < MaxPerforms
    /\ pending' = <<Move(axis, rotation_type, start_depth, end_depth)>>
    /\ UNCHANGED <<callVars, cube, prev, performed, panicked, seqVars, textVars, phase>>

\* cube.perform(pending): perform has no check of the depth range.
PerformPending ==
    /\ pending # <<>>
    /\ performed' = Append(performed, pending[1])
    /\ pending' = <<>>
    /\ prev' = cube
    /\ IF perform_panics(pending[1])
       THEN panicked' = TRUE /\ cube' = cube
       ELSE panicked' = FALSE /\ cube' = perform(cube, pending[1])
    /\ UNCHANGED <<callVars, seqVars, textVars, phase>>

NextNew ==
    \/ \E m \in NewMoves :
           MoveNew(m.axis, m.rotation_type, m.start_depth, m.end_depth)
    \/ PerformPending

SpecNew == InitNew /\ [][NextNew]_vars

\* ------------------------------------- SpecSeq: MoveSequence operations
\* A cube every face of which is scrambled: the solved cube after the moves
\* parsed from "R U' F2 L D' B M E' S".
ScrambleText ==
    <<"R", " ", "U", "'", " ", "F", "2", " ", "L", " ", "D", "'", " ", "B",
      " ", "M", " ", "E", "'", " ", "S">>
Scrambled == perform_all(CubeNew, MoveSequence_from_str(ScrambleText).value)
StartCubes == {CubeNew, Scrambled}

\* Sequences given in notation.
SeqTexts ==
    {<<"F", " ", "R", " ", "U", " ", "R", "'", " ", "U", "'", " ", "F", "'">>,
     <<"F", " ", "R", " ", "R", "'", " ", "F", "'">>,
     <<"F", "w", " ", "B", "w", "2">>}

InitSeq ==
    /\ InitCommon
    /\ arg = None
    /\ cube \in StartCubes
    /\ phase = "build"

\* seq.moves.push(mv)
Push(mv) ==
    /\ phase = "build"
    /\ Len(seq) < MaxSeqLen
    /\ seq' = Append(seq, mv)
    /\ UNCHANGED <<callVars, cubeVars, canon, recanon, inv, textVars, phase>>

\* seq = t.parse()
ParseSequence(t) ==
    /\ phase = "build"
    /\ seq = <<>>
    /\ MoveSequence_from_str(t).ok
    /\ seq' = MoveSequence_from_str(t).value
    /\ UNCHANGED <<callVars, cubeVars, canon, recanon, inv, textVars, phase>>

\* canon = seq.canonicalise(); the call aborts when process_axis does.
Canonicalise ==
    /\ phase = "build"
    /\ IF canonicalise_panics(seq)
       THEN /\ panicked' = TRUE
            /\ canon' = canon
            /\ phase' = "aborted"
       ELSE /\ \E orders \in run_orders(axis_runs(seq, <<>>)) :
                   canon' = canonicalise(seq, orders)
            /\ panicked' = panicked
            /\ phase' = "canonicalised"
    /\ UNCHANGED <<callVars, cube, prev, performed, pending, seq, recanon, inv,
                   textVars>>

\* recanon = canon.canonicalise()
Recanonicalise ==
    /\ phase = "canonicalised"
    /\ ~canonicalise_panics(canon)
    /\ \E orders \in run_orders(axis_runs(canon, <<>>)) :
           recanon' = canonicalise(canon, orders)
    /\ phase' = "recanonicalised"
    /\ UNCHANGED <<callVars, cubeVars, seq, canon, inv, textVars>>

\* inv = seq.inverse()
Inverse ==
    /\ phase = "build"
    /\ inv' = MoveSequence_inverse(seq)
    /\ phase' = "inverted"
    /\ UNCHANGED <<callVars, cubeVars, seq, canon, recanon, textVars>>

NextSeq ==
    \/ \E mv \in ValidMoves : Push(mv)
    \/ \E t \in SeqTexts : ParseSequence(t)
    \/ Canonicalise
    \/ Inverse

SpecSeq == InitSeq /\ [][NextSeq]_vars

\* SpecRecanon: the same, and the canonicalised sequence canonicalised again.
NextRecanon ==
    \/ \E mv \in ValidMoves : Push(mv)
    \/ \E t \in SeqTexts : ParseSequence(t)
    \/ Canonicalise
    \/ Recanonicalise

SpecRecanon == InitSeq /\ [][NextRecanon]_vars

\* SpecAny: sequences of any Move that Move::new builds, canonicalised.
InitAny ==
    /\ InitCommon
    /\ arg = None
    /\ cube = CubeNew
    /\ phase = "build"

\* seq.moves.push(Move::new(axis, rotation_type, start_depth, end_depth))
PushNew(axis, rotation_type, start_depth, end_depth) ==
    /\ phase = "build"
    /\ Len(seq) < MaxSeqLen
    /\ seq' = Append(seq, Move(axis, rotation_type, start_depth, end_depth))
    /\ UNCHANGED <<callVars, cubeVars, canon, recanon, inv, textVars, phase>>

NextAny ==
    \/ \E m \in NewMoves :
           PushNew(m.axis, m.rotation_type, m.start_depth, m.end_depth)
    \/ Canonicalise

SpecAny == InitAny /\ [][NextAny]_vars

\* ------------------------------------------- SpecParse: move notation
\* The characters typed: every face, wide and slice letter, the lowercase
\* slice letters, the three modifiers, the space, and a character of no use.
Chars ==
    {"F", "R", "U", "B", "L", "D", "f", "r", "u", "b", "l", "d", "M", "E", "S",
     "m", "e", "s", "w", "2", "'", " ", "x"}

InitParse ==
    /\ InitCommon
    /\ arg = None
    /\ cube = CubeNew
    /\ phase = "type"

\* One more character of the string.
Type(ch) ==
    /\ phase = "type"
    /\ Len(text) < MaxTextLen
    /\ text' = Append(text, ch)
    /\ UNCHANGED <<callVars, cubeVars, seqVars, parsed, printed, phase>>

\* parsed = text.parse::<Move>()
ParseMove ==
    /\ phase = "type"
    /\ parsed' = Move_from_str(text)
    /\ phase' = "move"
    /\ UNCHANGED <<callVars, cubeVars, seqVars, text, printed>>

\* printed = parsed.to_string()
PrintMove ==
    /\ phase = "move"
    /\ parsed.ok
    /\ printed' = Move_fmt(parsed.value)
    /\ phase' = "printed"
    /\ UNCHANGED <<callVars, cubeVars, seqVars, text, parsed>>

\* parsed = text.parse::<MoveSequence>()
ParseMoveSequence ==
    /\ phase = "type"
    /\ parsed' = MoveSequence_from_str(text)
    /\ phase' = "sequence"
    /\ UNCHANGED <<callVars, cubeVars, seqVars, text, printed>>

NextParse ==
    \/ \E ch \in Chars : Type(ch)
    \/ ParseMove
    \/ PrintMove
    \/ ParseMoveSequence

SpecParse == InitParse /\ [][NextParse]_vars

\* ------------------------------------- SpecRot: quarter-turn counts
\* The counts from_rotations is given: the count of a layer, accumulated from
\* zero, and the ends of the range of i32.
InitRot ==
    /\ InitCommon
    /\ cube = CubeNew
    /\ arg \in {0} \cup {I32Min + k : k \in 0 .. 4} \cup {I32Max - k : k \in 0 .. 4}
    /\ phase = "count"

\* *entry += mv.rotation_type.rotations()
Accumulate(r) ==
    /\ phase = "count"
    /\ -MaxTurns <= arg /\ arg <= MaxTurns
    /\ -MaxTurns <= arg + rotations(r) /\ arg + rotations(r) <= MaxTurns
    /\ arg' = arg + rotations(r)
    /\ UNCHANGED <<cubeVars, seqVars, textVars, result, phase>>

\* result = RotationType::from_rotations(arg)
FromRotations ==
    /\ phase = "count"
    /\ result' = from_rotations(arg)
    /\ phase' = "from_rotations"
    /\ UNCHANGED <<cubeVars, seqVars, textVars, arg>>

NextRot ==
    \/ \E r \in RotationTypes : Accumulate(r)
    \/ FromRotations

SpecRot == InitRot /\ [][NextRot]_vars

\* ------------------------------------------ SpecEdge: edges from faces
InitEdge ==
    /\ InitCommon
    /\ cube = CubeNew
    /\ arg = <<>>
    /\ phase = "faces"

\* One more face of the pair handed to from_faces.
ChooseFace(f) ==
    /\ phase = "faces"
    /\ Len(arg) < 2
    /\ arg' = Append(arg, f)
    /\ UNCHANGED <<cubeVars, seqVars, textVars, result, phase>>

\* result = EdgeType::from_faces_ordered(f1, f2)
FromFacesOrdered ==
    /\ phase = "faces"
    /\ Len(arg) = 2
    /\ result' = from_faces_ordered(arg[1], arg[2])
    /\ phase' = "from_faces_ordered"
    /\ UNCHANGED <<cubeVars, seqVars, textVars, arg>>

\* result = EdgeType::from_faces(f1, f2)
FromFaces ==
    /\ phase = "faces"
    /\ Len(arg) = 2
    /\ result' = from_faces(arg[1], arg[2])
    /\ phase' = "from_faces"
    /\ UNCHANGED <<cubeVars, seqVars, textVars, arg>>

NextEdge ==
    \/ \E f \in FaceTypes : ChooseFace(f)
    \/ FromFacesOrdered
    \/ FromFaces

SpecEdge == InitEdge /\ [][NextEdge]_vars

\* ------------------------------------------- SpecOp: composition
\* The moves the operands are built from, given in notation.
OpTexts == {<<"F">>, <<"R", "'">>, <<"U", "2">>, <<"B">>, <<"M">>, <<"D", "'">>}
OpMoves == {Move_from_str(t).value : t \in OpTexts}

\* Three sequences a, b, c, empty at first.
InitOp ==
    /\ InitCommon
    /\ cube \in StartCubes
    /\ arg = <<<<>>, <<>>, <<>>>>
    /\ phase = "operands"

\* One more move pushed on operand i.
PushOperand(i, mv) ==
    /\ phase = "operands"
    /\ Len(arg[1]) + Len(arg[2]) + Len(arg[3]) < MaxOpMoves
    /\ arg' = [arg EXCEPT ![i] = Append(@, mv)]
    /\ UNCHANGED <<cubeVars, seqVars, textVars, result, phase>>

\* a.op(b), and the two ways of composing a, b and c.
Compose ==
    /\ phase = "operands"
    /\ result' = [ab |-> op(arg[1], arg[2]),
                  ab_c |-> op(op(arg[1], arg[2]), arg[3]),
                  a_bc |-> op(arg[1], op(arg[2], arg[3]))]
    /\ phase' = "composed"
    /\ UNCHANGED <<cubeVars, seqVars, textVars, arg>>

NextOp ==
    \/ \E i \in 1 .. 3, mv \in OpMoves : PushOperand(i, mv)
    \/ Compose

SpecOp == InitOp /\ [][NextOp]_vars

\* ------------------------------------- SpecPair: two moves of one axis
\* The cubes the pair is performed on: the solved cube, the scrambled one and
\* two more, after "D L2 Bw' U E2 r F' M2 b" and after "Uw R' S2 d L F2 B' E".
PairTexts ==
    {<<"D", " ", "L", "2", " ", "B", "w", "'", " ", "U", " ", "E", "2", " ",
       "r", " ", "F", "'", " ", "M", "2", " ", "b">>,
     <<"U", "w", " ", "R", "'", " ", "S", "2", " ", "d", " ", "L", " ",
       "F", "2", " ", "B", "'", " ", "E">>}
PairCubes ==
    StartCubes \cup
        {perform_all(CubeNew, MoveSequence_from_str(t).value) : t \in PairTexts}

InitPair ==
    /\ InitCommon
    /\ cube \in PairCubes
    /\ arg = <<>>
    /\ phase = "moves"

\* One more move of the pair, on the axis of the first.
ChooseMove(mv) ==
    /\ phase = "moves"
    /\ Len(arg) < 2
    /\ arg # <<>> => mv.axis = arg[1].axis
    /\ arg' = Append(arg, mv)
    /\ UNCHANGED <<cubeVars, seqVars, textVars, result, phase>>

\* cube.perform(m1).perform(m2) and cube.perform(m2).perform(m1)
PerformBoth ==
    /\ phase = "moves"
    /\ Len(arg) = 2
    /\ result' = [first_second |-> perform(perform(cube, arg[1]), arg[2]),
                  second_first |-> perform(perform(cube, arg[2]), arg[1])]
    /\ phase' = "performed_both"
    /\ UNCHANGED <<cubeVars, seqVars, textVars, arg>>

NextPair ==
    \/ \E mv \in ValidMoves : ChooseMove(mv)
    \/ PerformBoth

SpecPair == InitPair /\ [][NextPair]_vars

\* ----------------------------------------------------------------- claims
LastMove == performed[Len(performed)]

\* C1: performing a move of a valid depth range and then its inverse returns
\* the cube the move was performed on, sticker for sticker on all six faces.
C1_MoveThenInverseRestores ==
    performed # <<>> => perform(cube, MoveInverse(LastMove)) = prev

\* A back-layer move has turned a scrambled cube, and the cube has changed.
C1_Witness ==
    /\ Len(performed) = 2
    /\ LastMove = Move("FB", "Normal", 2, 3)
    /\ cube # prev
    /\ cube["B"] # prev["B"]
    /\ perform(cube, MoveInverse(LastMove)) = prev

\* The three stickers at each of the 8 corner positions and the two stickers
\* at each of the 12 edge positions of a 3-layer cube, as <<face, row, col>>;
\* row 0 of a face is its top edge as seen facing the face.
CornerPositions ==
    {<<<<"F", 0, 2>>, <<"U", 2, 2>>, <<"R", 0, 0>>>>,
     <<<<"F", 0, 0>>, <<"U", 2, 0>>, <<"L", 0, 2>>>>,
     <<<<"F", 2, 2>>, <<"D", 0, 2>>, <<"R", 2, 0>>>>,
     <<<<"F", 2, 0>>, <<"D", 0, 0>>, <<"L", 2, 2>>>>,
     <<<<"B", 0, 0>>, <<"U", 0, 2>>, <<"R", 0, 2>>>>,
     <<<<"B", 0, 2>>, <<"U", 0, 0>>, <<"L", 0, 0>>>>,
     <<<<"B", 2, 0>>, <<"D", 2, 2>>, <<"R", 2, 2>>>>,
     <<<<"B", 2, 2>>, <<"D", 2, 0>>, <<"L", 2, 0>>>>}

EdgePositions ==
    {<<<<"U", 1, 2>>, <<"R", 0, 1>>>>, <<<<"U", 2, 1>>, <<"F", 0, 1>>>>,
     <<<<"U", 1, 0>>, <<"L", 0, 1>>>>, <<<<"U", 0, 1>>, <<"B", 0, 1>>>>,
     <<<<"D", 1, 2>>, <<"R", 2, 1>>>>, <<<<"D", 0, 1>>, <<"F", 2, 1>>>>,
     <<<<"D", 1, 0>>, <<"L", 2, 1>>>>, <<<<"D", 2, 1>>, <<"B", 2, 1>>>>,
     <<<<"F", 1, 2>>, <<"R", 1, 0>>>>, <<<<"F", 1, 0>>, <<"L", 1, 2>>>>,
     <<<<"B", 1, 0>>, <<"R", 1, 2>>>>, <<<<"B", 1, 2>>, <<"L", 1, 0>>>>}

Sticker(c, pos) == c[pos[1]][pos[2]][pos[3]]

\* The colours a position shows, and the colours of the cubie whose home the
\* position is.
Shown(c, position) == {Sticker(c, position[i]) : i \in DOMAIN position}
Cubie(position) == {ColourOf(position[i][1]) : i \in DOMAIN position}

\* The cube has all of the required pieces: every corner and edge position
\* shows the colours of one cubie, and no cubie is shown at two positions.
HasAllPieces(c) ==
    /\ \A position \in CornerPositions :
           Cardinality(Shown(c, position)) = 3
    /\ {Shown(c, position) : position \in CornerPositions}
           = {Cubie(position) : position \in CornerPositions}
    /\ \A position \in EdgePositions :
           Cardinality(Shown(c, position)) = 2
    /\ {Shown(c, position) : position \in EdgePositions}
           = {Cubie(position) : position \in EdgePositions}

\* C4: every cube reachable from the solved 3-layer cube by perform calls with
\* moves of a valid depth range is valid: it has all of the required pieces,
\* each of the 8 corner positions and 12 edge positions showing the colours of
\* one cubie, no cubie at two positions.
C4_ReachableCubesValid == HasAllPieces(cube)

\* C6: the move parsed from "F", applied to the solved 3-layer cube, leaves
\* Front all green, puts U's colour in R's left column, L's colour in U's
\* bottom row, D's colour in L's right column and R's colour in D's top row,
\* and changes no other sticker of R, U, L, D and nothing of Back.
C6_SingleFTurn ==
    performed = <<Move_from_str(<<"F">>).value>> =>
        /\ cube["F"] = CubeNew["F"]
        /\ cube["B"] = CubeNew["B"]
        /\ \A r \in Idx, c \in Idx :
              /\ cube["R"][r][c] = IF c = 0 THEN "White" ELSE "Red"
              /\ cube["U"][r][c] = IF r = N - 1 THEN "Orange" ELSE "White"
              /\ cube["L"][r][c] = IF c = N - 1 THEN "Yellow" ELSE "Orange"
              /\ cube["D"][r][c] = IF r = 0 THEN "Red" ELSE "Yellow"

\* "F" has been parsed and performed on the solved cube, and stickers moved.
C6_Witness ==
    /\ Move_from_str(<<"F">>).ok
    /\ performed = <<Move_from_str(<<"F">>).value>>
    /\ prev = CubeNew
    /\ cube # CubeNew

\* C2: canonicalisation preserves net effect: the moves of seq and the moves
\* of seq.canonicalise(), applied in order to the same cube, give the same
\* cube, whatever order the per-layer maps were iterated in.
C2_CanonicalisePreservesEffect ==
    phase = "canonicalised" => perform_all(cube, canon) = perform_all(cube, seq)

\* Two overlapping same-axis moves on a scrambled cube have been rewritten into
\* other moves, emitted out of depth order, with the same effect.
C2_Witness ==
    /\ phase = "canonicalised"
    /\ cube = Scrambled
    /\ seq = <<Move("UD", "Normal", 0, 3), Move("UD", "Double", 1, 2)>>
    /\ canon = <<Move("UD", "Normal", 2, 3), Move("UD", "Inverse", 1, 2),
                 Move("UD", "Normal", 0, 1)>>
    /\ perform_all(cube, canon) = perform_all(cube, seq)
    /\ perform_all(cube, seq) # cube

\* C3: canonicalisation is idempotent: canonicalising a canonicalised sequence
\* gives the same list of moves.
C3_CanonicaliseIdempotent ==
    phase = "recanonicalised" => recanon = canon

\* C5: the moves of seq applied in order and then the moves of seq.inverse()
\* applied in order return the cube they started from; seq.inverse() is the
\* moves of seq in reverse order, each with its rotation inverted.
C5_SequenceThenInverseRestores ==
    phase = "inverted" =>
        /\ perform_all(perform_all(cube, seq), inv) = cube
        /\ Len(inv) = Len(seq)
        /\ \A i \in DOMAIN seq :
               inv[i] = [seq[Len(seq) + 1 - i] EXCEPT
                            !.rotation_type = RotationInverse(@)]

\* "F R U R' U' F'" has been parsed, inverted, and the two applied in turn to
\* the solved cube give back the solved cube.
C5_Witness ==
    /\ phase = "inverted"
    /\ cube = CubeNew
    /\ seq = <<Move("FB", "Normal", 0, 1), Move("RL", "Normal", 0, 1),
               Move("UD", "Normal", 0, 1), Move("RL", "Inverse", 0, 1),
               Move("UD", "Inverse", 0, 1), Move("FB", "Inverse", 0, 1)>>
    /\ inv = <<Move("FB", "Normal", 0, 1), Move("UD", "Normal", 0, 1),
               Move("RL", "Normal", 0, 1), Move("UD", "Inverse", 0, 1),
               Move("RL", "Inverse", 0, 1), Move("FB", "Inverse", 0, 1)>>
    /\ perform_all(cube, seq) # CubeNew
    /\ perform_all(perform_all(cube, seq), inv) = CubeNew

\* The net quarter turns, modulo four, a run of same-axis moves gives each layer.
NetRotations(moves) == [slice \in 0 .. (N - 1) |-> turns_at(moves, slice) % 4]

\* C10: canonicalise produces a length-minimal sequence: the result never has
\* more moves than the input, and each axis run is emitted as the fewest moves
\* that realise its per-layer net rotations.
C10_CanonicaliseLengthMinimal ==
    phase = "canonicalised" =>
        /\ Len(canon) <= Len(seq)
        /\ (seq # <<>> /\ \A i \in DOMAIN seq : seq[i].axis = seq[1].axis) =>
               \A n \in 0 .. (Len(canon) - 1) :
                   \A shorter \in [1 .. n -> {m \in ValidMoves : m.axis = seq[1].axis}] :
                       NetRotations(shorter) # NetRotations(seq)

\* The depth ranges Display for Move prints in notation.
CanonicalRanges == {<<0, 1>>, <<1, 2>>, <<2, 3>>}

ExampleTexts == {<<"R", "2">>, <<"F", "w">>, <<"M", "'">>, <<"L", "w", "2">>}

\* C7 as stated: parsing a move string and printing the result reproduces the
\* string for every move whose parsed depth range is (0,1), (1,2) or (2,3),
\* and for "R2", "Fw", "M'" and "Lw2".
C7_PrintReproducesCanonicalRange ==
    (/\ phase = "printed"
     /\ \/ <<parsed.value.start_depth, parsed.value.end_depth>> \in CanonicalRanges
        \/ text \in ExampleTexts)
        => printed = text

\* The strings Display for Move writes in notation: one of the letters
\* F R U B L D S M E followed by nothing, by 2 or by '.
NotationStrings ==
    {<<l>> \o m : l \in {"F", "R", "U", "B", "L", "D", "S", "M", "E"},
                  m \in {<<>>, <<"2">>, <<"'">>}}

\* C7 amended: parsing a move string and printing the result reproduces the
\* string exactly when the string is a letter of F R U B L D S M E followed
\* by at most one modifier, 2 or ' (so "R2" and "M'"); every other string
\* that parses (lowercase or w-suffixed wide moves such as "Fw" and "Lw2",
\* repeated modifiers such as "U2'") is printed differently.
C7_PrintReproducesNotation ==
    phase = "printed" => (printed = text <=> text \in NotationStrings)

\* "M'" has been parsed and printed back as "M'".
C7_Witness ==
    /\ phase = "printed"
    /\ text = <<"M", "'">>
    /\ parsed = Ok(Move("RL", "Normal", 1, 2))
    /\ printed = text

\* C8: a Move with start_depth >= end_depth or end_depth > N is rejected
\* before perform runs: perform is never executed on such a move, and so
\* never aborts.
C8_DepthRangeValidated ==
    /\ \A i \in DOMAIN performed :
           performed[i].start_depth < performed[i].end_depth
               /\ performed[i].end_depth <= N
    /\ ~panicked

FaceLetters ==
    {"F", "R", "U", "B", "L", "D", "f", "r", "u", "b", "l", "d", "M", "E", "S"}

\* The grammar of a move: a face letter, then modifiers.
InGrammar(s) ==
    /\ s # <<>>
    /\ s[1] \in FaceLetters
    /\ \A k \in 2 .. Len(s) : s[k] \in {"w", "2", "'"}

\* The pieces of s between its spaces.
Pieces(s) ==
    LET cuts == <<0>> \o SelectSeq([k \in 1 .. Len(s) |-> k], LAMBDA k : s[k] = " ")
                     \o <<Len(s) + 1>>
    IN  [p \in 1 .. (Len(cuts) - 1) |-> SubSeq(s, cuts[p] + 1, cuts[p + 1] - 1)]

\* C9: parsing a move succeeds iff the string is non-empty, starts with one of
\* F R U B L D f r u b l d M E S and continues with w, 2 or ' only, and
\* otherwise gives the error and no Move; parsing a sequence fails as a whole
\* as soon as one space-separated piece fails.
C9_ParseAcceptsGrammar ==
    /\ phase = "move" =>
           /\ parsed.ok <=> InGrammar(text)
           /\ ~parsed.ok => parsed = Err
    /\ phase = "sequence" =>
           /\ parsed.ok <=> \A p \in DOMAIN Pieces(text) : InGrammar(Pieces(text)[p])
           /\ ~parsed.ok => parsed = Err
           /\ parsed.ok => Len(parsed.value) = Len(Pieces(text))

\* A sequence whose second piece is a lowercase slice letter has been refused.
C9_Witness ==
    /\ phase = "sequence"
    /\ text = <<"F", " ", "m">>
    /\ parsed = Err

\* C11: from_rotations has period 4 over the signed counts, negative ones
\* included: it returns None exactly for the multiples of 4, Normal for
\* n = 1, Double for n = 2 and Inverse for n = 3 modulo 4, and gives back each
\* rotation type from its own count.
C11_FromRotationsPeriodic ==
    phase = "from_rotations" =>
        /\ result = CASE arg % 4 = 0 -> "None"
                      [] arg % 4 = 1 -> "Normal"
                      [] arg % 4 = 2 -> "Double"
                      [] arg % 4 = 3 -> "Inverse"
        /\ arg <= I32Max - 4 => from_rotations(arg + 4) = result
        /\ \A r \in RotationTypes : from_rotations(rotations(r)) = r

\* from_rotations(-1) has returned Some(Inverse).
C11_Witness ==
    /\ phase = "from_rotations"
    /\ arg = -1
    /\ result = "Inverse"

\* The face opposite a face.
Opposite(f) ==
    CASE f = "F" -> "B" [] f = "B" -> "F"
      [] f = "R" -> "L" [] f = "L" -> "R"
      [] f = "U" -> "D" [] f = "D" -> "U"

\* C12: from_faces returns Some exactly for two adjacent faces (distinct and
\* not opposite); the parity is 0 when the pair spells one of the twelve edge
\* names and 1 when it spells it backwards, and the two orders of a pair name
\* the same edge with opposite parities.
C12_FromFacesParity ==
    phase = "from_faces" =>
        LET f1 == arg[1]
            f2 == arg[2]
            adjacent == f1 # f2 /\ f2 # Opposite(f1)
        IN  /\ result # <<>> <=> adjacent
            /\ adjacent =>
                   /\ f1 \o f2 \in EdgeTypes => result = Some(<<f1 \o f2, 0>>)
                   /\ f2 \o f1 \in EdgeTypes => result = Some(<<f2 \o f1, 1>>)
                   /\ f1 \o f2 \in EdgeTypes \/ f2 \o f1 \in EdgeTypes
                   /\ from_faces(f2, f1) = Some(<<result[1][1], 1 - result[1][2]>>)

\* from_faces(R, U) has returned (UR, 1).
C12_Witness ==
    /\ phase = "from_faces"
    /\ arg = <<"R", "U">>
    /\ result = Some(<<"UR", 1>>)

\* C13: a.op(b) is "do b, then a": its moves are b's followed by a's, so
\* applying it in list order is applying b and then a; and op is associative.
C13_OpDoesOtherFirst ==
    phase = "composed" =>
        /\ result.ab = arg[2] \o arg[1]
        /\ perform_all(cube, result.ab)
               = perform_all(perform_all(cube, arg[2]), arg[1])
        /\ result.ab_c = result.a_bc

\* Three different one-move sequences have been composed, and a.op(b) turns
\* the cube otherwise than b.op(a).
C13_Witness ==
    /\ phase = "composed"
    /\ arg = <<<<Move("FB", "Normal", 0, 1)>>, <<Move("RL", "Inverse", 0, 1)>>,
               <<Move("UD", "Double", 0, 1)>>>>
    /\ result.ab = <<Move("RL", "Inverse", 0, 1), Move("FB", "Normal", 0, 1)>>
    /\ Len(result.ab_c) = 3
    /\ perform_all(cube, result.ab) # perform_all(cube, arg[1] \o arg[2])

\* The moves are on one axis, in ascending depth with disjoint depth ranges.
DepthAscending(moves, axis) ==
    /\ \A j \in DOMAIN moves : moves[j].axis = axis
    /\ \A j \in 2 .. Len(moves) : moves[j].start_depth >= moves[j - 1].end_depth

\* The moves are the runs' outputs one after the other: a depth-ascending
\* piece, possibly empty, for each run in turn.
RECURSIVE EmittedRunByRun(_, _)
EmittedRunByRun(runs, moves) ==
    IF runs = <<>> THEN moves = <<>>
    ELSE \E n \in 0 .. Len(moves) :
             /\ DepthAscending(SubSeq(moves, 1, n), Head(runs)[1].axis)
             /\ EmittedRunByRun(Tail(runs), SubSeq(moves, n + 1, Len(moves)))

\* C14: within each maximal run of same-axis moves canonicalise emits the
\* coalesced moves in ascending depth with pairwise disjoint depth ranges,
\* whatever order the map is iterated in, and the runs' outputs follow one
\* another in the runs' original order.
C14_EmitsDepthAscending ==
    (phase = "canonicalised" /\ seq # <<>>) =>
        EmittedRunByRun(axis_runs(seq, <<>>), canon)

\* The rotation the modifiers of a notation string give, and the depth range
\* its letter and modifiers give, before any mirroring.
WrittenRotation(s) ==
    IF \E k \in 2 .. Len(s) : s[k] = "2" THEN "Double"
    ELSE IF \E k \in 2 .. Len(s) : s[k] = "'" THEN "Inverse"
    ELSE "Normal"

WrittenDepths(s) ==
    IF s[1] \in {"M", "E", "S"} THEN <<1, 2>>
    ELSE IF s[1] \in {"f", "r", "u", "b", "l", "d"}
            \/ \E k \in 2 .. Len(s) : s[k] = "w" THEN <<0, 2>>
    ELSE <<0, 1>>

WrittenAxis(s) ==
    CASE s[1] \in {"F", "f", "S", "B", "b"} -> "FB"
      [] s[1] \in {"R", "r", "L", "l", "M"} -> "RL"
      [] s[1] \in {"U", "u", "D", "d", "E"} -> "UD"

\* C15: for the letters of the back half (B, L, D, lowercase or not, and the
\* slices M and E) parsing inverts the written rotation and mirrors the depth
\* range with the layer count 3, start' = 3 - end and end' = 3 - start; for
\* F, R, U and S both are kept. So "B" is {FB, Inverse, 2, 3}, "Bw"
\* {FB, Inverse, 1, 3}, "M" {RL, Inverse, 1, 2}, "D2" {UD, Double, 2, 3} and
\* "F" {FB, Normal, 0, 1}.
C15_BackHalfMirrored ==
    (phase = "move" /\ parsed.ok) =>
        /\ parsed.value =
               IF text[1] \in {"B", "L", "D", "b", "l", "d", "M", "E"}
               THEN Move(WrittenAxis(text), RotationInverse(WrittenRotation(text)),
                         3 - WrittenDepths(text)[2], 3 - WrittenDepths(text)[1])
               ELSE Move(WrittenAxis(text), WrittenRotation(text),
                         WrittenDepths(text)[1], WrittenDepths(text)[2])
        /\ text = <<"B">> => parsed.value = Move("FB", "Inverse", 2, 3)
        /\ text = <<"B", "w">> => parsed.value = Move("FB", "Inverse", 1, 3)
        /\ text = <<"M">> => parsed.value = Move("RL", "Inverse", 1, 2)
        /\ text = <<"D", "2">> => parsed.value = Move("UD", "Double", 2, 3)
        /\ text = <<"F">> => parsed.value = Move("FB", "Normal", 0, 1)

\* "Lw'" has been parsed into the two far layers of RL, turned clockwise.
C15_Witness ==
    /\ phase = "move"
    /\ text = <<"L", "w", "'">>
    /\ parsed = Ok(Move("RL", "Normal", 1, 3))

\* The positive and the negative face of an axis, and its four side faces.
PositiveFace(axis) == CASE axis = "FB" -> "F" [] axis = "RL" -> "R" [] axis = "UD" -> "U"
NegativeFace(axis) == CASE axis = "FB" -> "B" [] axis = "RL" -> "L" [] axis = "UD" -> "D"
SideFaces(axis) == FaceTypes \ {PositiveFace(axis), NegativeFace(axis)}

\* The face turned as a whole, by a quarter, a half or three quarters.
WholeTurns(face) == {rotate_cw(face), rotate_double(face), rotate_ccw(face)}

\* Sticker (r, c) of a side face lies in layer i of the axis, layer 0 being
\* next to the positive face.
InLayer(axis, face, r, c, i) ==
    CASE axis = "FB" /\ face = "R" -> c = i
      [] axis = "FB" /\ face = "U" -> r = N - 1 - i
      [] axis = "FB" /\ face = "L" -> c = N - 1 - i
      [] axis = "FB" /\ face = "D" -> r = i
      [] axis = "RL" /\ face = "B" -> c = i
      [] axis = "RL" -> c = N - 1 - i
      [] axis = "UD" -> r = i

\* C16: for a move with 0 <= start_depth <= end_depth <= N, perform turns the
\* positive face of the axis as a whole exactly when the turned layers include
\* layer 0 and the negative face exactly when they include layer N - 1,
\* leaving the face unchanged otherwise; on the four side faces only the
\* lines of the turned layers change.
C16_FacesTurnWithOuterLayer ==
    (/\ performed # <<>>
     /\ LastMove.start_depth <= LastMove.end_depth
     /\ LastMove.end_depth <= N) =>
        LET turned == LastMove.start_depth .. (LastMove.end_depth - 1)
            positive == PositiveFace(LastMove.axis)
            negative == NegativeFace(LastMove.axis)
        IN  /\ IF 0 \in turned
               THEN cube[positive] \in WholeTurns(prev[positive])
               ELSE cube[positive] = prev[positive]
            /\ IF N - 1 \in turned
               THEN cube[negative] \in WholeTurns(prev[negative])
               ELSE cube[negative] = prev[negative]
            /\ \A face \in SideFaces(LastMove.axis) : \A r \in Idx, c \in Idx :
                   (\A i \in turned : ~InLayer(LastMove.axis, face, r, c, i)) =>
                       cube[face][r][c] = prev[face][r][c]

\* C17: two moves on one axis commute, whether their depth ranges overlap or
\* not, and two moves of one depth range compose as their quarter turns add
\* up modulo 4: the single move from_rotations gives, or no move at all.
C17_SameAxisMovesCommute ==
    phase = "performed_both" =>
        LET m1 == arg[1]
            m2 == arg[2]
            sum == from_rotations(rotations(m1.rotation_type)
                                      + rotations(m2.rotation_type))
        IN  /\ result.first_second = result.second_first
            /\ (m1.start_depth = m2.start_depth /\ m1.end_depth = m2.end_depth) =>
                   result.first_second =
                       IF sum = "None" THEN cube
                       ELSE perform(cube, Move(m1.axis, sum, m1.start_depth,
                                               m1.end_depth))

\* Two overlapping moves of the RL axis have been performed on the scrambled
\* cube in both orders, and each of them alone turns it otherwise.
C17_Witness ==
    /\ phase = "performed_both"
    /\ cube = Scrambled
    /\ arg = <<Move("RL", "Normal", 0, 2), Move("RL", "Double", 1, 3)>>
    /\ result.first_second = result.second_first
    /\ result.first_second # perform(cube, arg[1])
    /\ result.first_second # perform(cube, arg[2])

\* C18: canonicalise returns a MoveSequence and never aborts, whatever the
\* depth ranges of the moves: the empty sequence comes back unchanged, and a
\* run whose moves all have an empty depth range is handled too.
C18_CanonicaliseNeverAborts ==
    /\ ~panicked
    /\ phase # "aborted"
    /\ (phase = "canonicalised" /\ seq = <<>>) => canon = <<>>

\* The number of stickers of a cube that show a colour.
ColourCount(c, colour) ==
    Cardinality({p \in FaceTypes \X Idx \X Idx : c[p[1]][p[2]][p[3]] = colour})

\* C19: perform permutes the stickers: in every cube reached from the new cube
\* by valid moves each of the six colours is on exactly N * N stickers; and
\* the new cube has every sticker of a face in the face's colour (F green,
\* R red, U white, B blue, L orange, D yellow).
C19_ColourCountsKept ==
    /\ \A colour \in Colours : ColourCount(cube, colour) = N * N
    /\ performed = <<>> =>
           /\ \A f \in FaceTypes : \A r \in Idx, c \in Idx : cube[f][r][c] = ColourOf(f)
           /\ <<ColourOf("F"), ColourOf("R"), ColourOf("U"), ColourOf("B"),
                ColourOf("L"), ColourOf("D")>>
                  = <<"Green", "Red", "White", "Blue", "Orange", "Yellow">>

\* Two moves have mixed the cube: some face shows three colours or more, and
\* every colour is still on nine stickers.
C19_Witness ==
    /\ Len(performed) = 2
    /\ \E f \in FaceTypes :
           Cardinality({cube[f][r][c] : r \in Idx, c \in Idx}) >= 3
    /\ \A colour \in Colours : ColourCount(cube, colour) = 9

====
